---- MODULE Spec2Model ----
(***************************************************************************)
(* Model of js/user-management.js (class UserManagementSystem): the three  *)
(* IndexedDB object stores (users, userProgress, sessions), the two        *)
(* 'nclex_session_id' token slots (localStorage, sessionStorage), the      *)
(* 'nclex_user_data' snapshot slot, the in-memory currentUser pointer and  *)
(* the public operations, each run to completion (sequential callers);     *)
(* registerUser is also modelled step by step, suspended at its awaits,    *)
(* for two calls in flight together.                                       *)
(*                                                                         *)
(* JavaScript strings that the code inspects (email, username, names,      *)
(* password) are sequences of one-character strings, so that trim,         *)
(* toLowerCase and the regular expressions are computed and not assumed.   *)
(* null is the empty sequence <<>> and a present value v is <<v>>.         *)
(* Date values are integers; toISOString / new Date(string) keep the full  *)
(* precision of a Date, so a timestamp is stored as its integer.           *)
(* SHA-256 is modelled as collision free (a tagged copy of its input) and  *)
(* Math.random() in generateSessionId as never repeating a suffix.         *)
(***************************************************************************)
EXTENDS Integers, Sequences, FiniteSets, TLC

(* users, userProgress, sessions: the object stores, key -> record;         *)
(* nextId: the key generator of users; issued: session ids generated;      *)
(* localSession, tabSession: 'nclex_session_id' in localStorage and in     *)
(* sessionStorage; snapshot: 'nclex_user_data'; currentUser: the field;    *)
(* now: the clock; call, ret: the last operation and what it returned;      *)
(* dbOpen: this.db is the open database and not null; pending: the         *)
(* registerUser calls that are suspended at an await or have returned,     *)
(* caller -> the call's local variables.                                   *)
VARIABLES users, userProgress, sessions, nextId, issued,
          localSession, tabSession, snapshot, currentUser,
          now, call, ret, dbOpen, pending

vars == <<users, userProgress, sessions, nextId, issued,
          localSession, tabSession, snapshot, currentUser,
          now, call, ret, dbOpen, pending>>

(* ------------------------------ bounds -------------------------------- *)

(* Accounts stored and session ids generated in one behaviour. *)
MaxUsers == 2

MaxSessions == 2

(* The largest question count a progress patch carries. *)
MaxCount == 4

(* --------------------------- JS value helpers -------------------------- *)

Null == <<>>

Some(v) == <<v>>

Merge(a, b) ==
    [f \in (DOMAIN a) \cup (DOMAIN b) |-> IF f \in DOMAIN b THEN b[f] ELSE a[f]]

UpperChars == <<"A","B","C","D","E","F","G","H","I","J","K","L","M",
                "N","O","P","Q","R","S","T","U","V","W","X","Y","Z">>

LowerChars == <<"a","b","c","d","e","f","g","h","i","j","k","l","m",
                "n","o","p","q","r","s","t","u","v","w","x","y","z">>

DigitChars == {"0","1","2","3","4","5","6","7","8","9"}

SpaceChars == {" ", "\t", "\n"}

Range(s) == {s[i] : i \in DOMAIN s}

UpperSet == Range(UpperChars)

LowerSet == Range(LowerChars)

IsUpper(c) == c \in UpperSet

IsLower(c) == c \in LowerSet

LowerChar(c) ==
    IF IsUpper(c)
    THEN LowerChars[CHOOSE i \in DOMAIN UpperChars : UpperChars[i] = c]
    ELSE c

toLowerCase(s) == [i \in DOMAIN s |-> LowerChar(s[i])]

trim(s) ==
    LET keep == {i \in DOMAIN s : s[i] \notin SpaceChars}
    IN  IF keep = {} THEN <<>>
        ELSE LET lo == CHOOSE i \in keep : \A j \in keep : i <= j
                 hi == CHOOSE i \in keep : \A j \in keep : j <= i
             IN  SubSeq(s, lo, hi)

(* /^[a-zA-Z0-9._%+-]+@[a-zA-Z0-9.-]+\.[a-zA-Z]{2,}$/ *)
isValidEmail(email) ==
    LET letter(c) == IsUpper(c) \/ IsLower(c)
        alnum(c)  == letter(c) \/ c \in DigitChars
        local(c)  == alnum(c) \/ c \in {".", "_", "%", "+", "-"}
        host(c)   == alnum(c) \/ c \in {".", "-"}
        n         == Len(email)
    IN  \E at \in 1..n : \E dot \in 1..n :
            /\ at > 1
            /\ email[at] = "@"
            /\ dot > at + 1
            /\ email[dot] = "."
            /\ n >= dot + 2
            /\ \A i \in 1..(at - 1) : local(email[i])
            /\ \A i \in (at + 1)..(dot - 1) : host(email[i])
            /\ \A i \in (dot + 1)..n : letter(email[i])

ValidationOk == [valid |-> TRUE]

ValidationError(m) == [valid |-> FALSE, message |-> m]

validateUserData_UsernameFirst(data) ==
    IF data.username = <<>> \/ Len(data.username) < 3
    THEN ValidationError("Username must be at least 3 characters long")
    ELSE IF data.email = <<>> \/ ~isValidEmail(data.email)
    THEN ValidationError("Please enter a valid email address")
    ELSE IF data.firstName = <<>> \/ Len(data.firstName) < 2
    THEN ValidationError("First name must be at least 2 characters long")
    ELSE IF data.lastName = <<>> \/ Len(data.lastName) < 2
    THEN ValidationError("Last name must be at least 2 characters long")
    ELSE IF data.password = <<>> \/ Len(data.password) < 8
    THEN ValidationError("Password must be at least 8 characters long")
    ELSE IF ~( /\ \E i \in DOMAIN data.password : IsLower(data.password[i])
               /\ \E i \in DOMAIN data.password : IsUpper(data.password[i])
               /\ \E i \in DOMAIN data.password : data.password[i] \in DigitChars )
    THEN ValidationError("Password must contain at least one uppercase letter, one lowercase letter, and one number")
    ELSE ValidationOk

validateUserData(data) ==
    IF data.email = <<>> \/ ~isValidEmail(data.email)
    THEN ValidationError("Please enter a valid email address")
    ELSE IF data.username = <<>> \/ Len(data.username) < 3
    THEN ValidationError("Username must be at least 3 characters long")
    ELSE IF data.firstName = <<>> \/ Len(data.firstName) < 2
    THEN ValidationError("First name must be at least 2 characters long")
    ELSE IF data.lastName = <<>> \/ Len(data.lastName) < 2
    THEN ValidationError("Last name must be at least 2 characters long")
    ELSE IF data.password = <<>> \/ Len(data.password) < 8
    THEN ValidationError("Password must be at least 8 characters long")
    ELSE IF ~( /\ \E i \in DOMAIN data.password : IsLower(data.password[i])
               /\ \E i \in DOMAIN data.password : IsUpper(data.password[i])
               /\ \E i \in DOMAIN data.password : data.password[i] \in DigitChars )
    THEN ValidationError("Password must contain at least one uppercase letter, one lowercase letter, and one number")
    ELSE ValidationOk

NCLEX_SALT == <<"N","C","L","E","X","_","S","A","L","T","_","2","0","2","4">>

hashPassword(password) == <<"sha256", password \o NCLEX_SALT>>

verifyPassword(password, hash) == hashPassword(password) = hash

sanitizeUser_KeepsHash(user) == user

sanitizeUser(user) == [f \in (DOMAIN user) \ {"passwordHash"} |-> user[f]]

(* ------------------------------ the clock ------------------------------ *)

(* Times are counted in seconds: the code's factor of 1000 ms/s is        *)
(* divided out of both lifetimes, because 30 days in milliseconds exceed    *)
(* the integers of the model checker.  The code only adds a lifetime to a  *)
(* timestamp and compares timestamps, which no choice of unit changes.     *)
ShortTtl == 12 * 60 * 60

LongTtl == 30 * 24 * 60 * 60

(* The instants at which operations are observed: new Date() returns one   *)
(* of them, and the clock only moves forward.                              *)
Instants == {0, ShortTtl, ShortTtl + 1, LongTtl, LongTtl + 1}

(* ------------------------- IndexedDB object stores --------------------- *)

UniqueConflict_UsernameOnly(store, key, rec) ==
    \E k \in (DOMAIN store) \ {key} : store[k].username = rec.username

(* users: keyPath 'id', autoIncrement, unique indexes 'email', 'username'. *)
(* A write of rec under key is refused (ConstraintError) when a record     *)
(* under another key has the same index key.                               *)
UniqueConflict(store, key, rec) ==
    \E k \in (DOMAIN store) \ {key} :
        \/ store[k].email = rec.email
        \/ store[k].username = rec.username

ConstraintError == "ConstraintError: at least one key does not satisfy the uniqueness requirements"

StorePut(store, key, rec) ==
    [k \in (DOMAIN store) \cup {key} |-> IF k = key THEN rec ELSE store[k]]

StoreDelete(store, key) == [k \in (DOMAIN store) \ {key} |-> store[k]]

StoreGet(store, key) == IF key \in DOMAIN store THEN Some(store[key]) ELSE Null

(* index('email').get(email): exact match on the stored string. *)
getUserByEmail(store, email) ==
    IF \E k \in DOMAIN store : store[k].email = email
    THEN Some(store[CHOOSE k \in DOMAIN store : store[k].email = email])
    ELSE Null

getUserById(store, id) == StoreGet(store, id)

getSession(store, sessionId) == StoreGet(store, sessionId)

(* ------------------------------- sessions ------------------------------ *)

generateSessionId_NoSuffix(t, n) == <<"sess_", t, 0>>

(* 'sess_' + Date.now() + '_' + random suffix; n is the number of ids      *)
(* generated so far and stands for a suffix that never repeats.            *)
generateSessionId(t, n) == <<"sess_", t, n>>

NewSession(userId, rememberMe, t, n) ==
    [sessionId  |-> generateSessionId(t, n),
     userId     |-> userId,
     createdAt  |-> t,
     expiresAt  |-> t + (IF rememberMe THEN LongTtl ELSE ShortTtl),
     rememberMe |-> rememberMe,
     isActive   |-> TRUE]

isSessionExpired(session, t) == t > session.expiresAt

(* localStorage.getItem(..) || sessionStorage.getItem(..) *)
StoredSessionId(local, tab) == IF local # Null THEN local ELSE tab

initialProgress_StartsStreak(userId, t) ==
    [userId             |-> userId,
     questionsAnswered  |-> 0,
     questionsCorrect   |-> 0,
     currentStreak      |-> 1,
     longestStreak      |-> 1,
     studyTime          |-> 0,
     categoriesProgress |-> <<>>,
     flaggedQuestions   |-> <<>>,
     masteredQuestions  |-> <<>>,
     weakAreas          |-> <<>>,
     studyGoal          |-> 20,
     dailyProgress      |-> <<>>,
     lastStudyDate      |-> Null,
     createdAt          |-> t]

initialProgress(userId, t) ==
    [userId             |-> userId,
     questionsAnswered  |-> 0,
     questionsCorrect   |-> 0,
     currentStreak      |-> 0,
     longestStreak      |-> 0,
     studyTime          |-> 0,
     categoriesProgress |-> <<>>,
     flaggedQuestions   |-> <<>>,
     masteredQuestions  |-> <<>>,
     weakAreas          |-> <<>>,
     studyGoal          |-> 20,
     dailyProgress      |-> <<>>,
     lastStudyDate      |-> Null,
     createdAt          |-> t]

Failure(m) == [success |-> FALSE, message |-> m]

(* The call does not return: its promise is rejected with an error of      *)
(* message m, which the caller has to catch.                               *)
Rejected(m) == [rejected |-> TRUE, message |-> m]

(* this.db.transaction(..) while this.db is null. *)
NullDbError == "TypeError: Cannot read properties of null (reading 'transaction')"

(* The user object registerUser builds from userData. *)
NewUser(userData, t) ==
    [email        |-> trim(toLowerCase(userData.email)),
     username     |-> trim(userData.username),
     firstName    |-> trim(userData.firstName),
     lastName     |-> trim(userData.lastName),
     passwordHash |-> hashPassword(userData.password),
     createdAt    |-> t,
     lastLoginAt  |-> Null,
     isActive     |-> TRUE,
     role         |-> "student",
     preferences  |-> [rememberMe |-> userData.rememberMe,
                       emailNotifications |-> TRUE,
                       studyReminders |-> TRUE],
     profile      |-> [graduationDate |-> Null, schoolName |-> <<>>,
                       examDate |-> Null, studyGoal |-> 20]]

(* ------------------------------- inputs -------------------------------- *)

EmailA == <<"a","@","x",".","c","o">>

EmailAUpper == <<"A","@","X",".","c","o">>

EmailASpaced == <<" ","A","@","x",".","c","o"," ">>

EmailB == <<"b","@","x",".","c","o">>

EmailBad == <<"a","x",".","c","o">>

NameAnn == <<"a","n","n">>

NameAmy == <<"a","m","y">>

NameBob == <<"b","o","b">>

Password1 == <<"P","a","s","s","w","0","r","d">>

Password2 == <<"P","a","s","s","w","0","r","D">>

UserDataOf(e, u, r) ==
    [email |-> e, username |-> u, firstName |-> <<"A","l">>,
     lastName |-> <<"L","i">>, password |-> Password1, rememberMe |-> r]

RegisterInputs ==
    { UserDataOf(EmailA, NameAnn, FALSE),
      UserDataOf(EmailAUpper, NameAmy, FALSE),
      UserDataOf(EmailB, NameBob, TRUE),
      UserDataOf(EmailBad, NameBob, FALSE) }

(* <<email, password, rememberMe>> *)
LoginInputs ==
    { <<EmailASpaced, Password1, FALSE>>, <<EmailASpaced, Password1, TRUE>>,
      <<EmailASpaced, Password2, FALSE>>,
      <<EmailB, Password1, FALSE>>, <<EmailB, Password2, TRUE>> }

ProfileUpdates ==
    { [isActive |-> FALSE],
      [email |-> EmailAUpper, passwordHash |-> hashPassword(Password2)] }

UserIds == 1..(MaxUsers + 1)

(* -------------------------------- state -------------------------------- *)

Init ==
    /\ users = <<>>
    /\ userProgress = <<>>
    /\ sessions = <<>>
    /\ nextId = 1
    /\ issued = 0
    /\ localSession = Null
    /\ tabSession = Null
    /\ snapshot = Null
    /\ currentUser = Null
    /\ now = 0
    /\ call = "init"
    /\ ret = Null
    /\ dbOpen = TRUE
    /\ pending = <<>>

db == <<users, userProgress, sessions, nextId, issued>>

client == <<localSession, tabSession, snapshot, currentUser>>

updateLastLogin(store, userId, t) ==
    LET user == getUserById(store, userId)
    IN  IF user # Null
        THEN StorePut(store, userId, Merge(user[1], [lastLoginAt |-> Some(t)]))
        ELSE store

createSession_DropsOlderSessions(session) ==
    /\ issued < MaxSessions
    /\ sessions' = StorePut([k \in {j \in DOMAIN sessions : sessions[j].userId # session.userId}
                                |-> sessions[k]],
                            session.sessionId, session)
    /\ issued' = issued + 1
    /\ IF session.rememberMe
       THEN localSession' = Some(session.sessionId) /\ UNCHANGED tabSession
       ELSE tabSession' = Some(session.sessionId) /\ UNCHANGED localSession

(* createSession: the row, then the token slot chosen by rememberMe. *)
createSession(session) ==
    /\ issued < MaxSessions
    /\ sessions' = StorePut(sessions, session.sessionId, session)
    /\ issued' = issued + 1
    /\ IF session.rememberMe
       THEN localSession' = Some(session.sessionId) /\ UNCHANGED tabSession
       ELSE tabSession' = Some(session.sessionId) /\ UNCHANGED localSession

registerUser(d) ==
    LET validation   == validateUserData(d)
        existingUser == getUserByEmail(users, d.email)
        user         == NewUser(d, now)
        stored       == Merge(user, [id |-> nextId])
        session      == NewSession(nextId, d.rememberMe, now, issued)
    IN  /\ call' = "registerUser"
        /\ UNCHANGED <<now, dbOpen, pending>>
        /\ IF ~validation.valid
           THEN ret' = Failure(validation.message) /\ UNCHANGED <<db, client>>
           ELSE IF ~dbOpen
           THEN ret' = Failure(NullDbError) /\ UNCHANGED <<db, client>>
           ELSE IF existingUser # Null
           THEN /\ ret' = Failure("An account with this email already exists")
                /\ UNCHANGED <<db, client>>
           ELSE IF UniqueConflict(users, nextId, stored)
           THEN ret' = Failure(ConstraintError) /\ UNCHANGED <<db, client>>
           ELSE /\ nextId <= MaxUsers
                /\ users' = StorePut(users, nextId, stored)
                /\ nextId' = nextId + 1
                /\ userProgress' = StorePut(userProgress, nextId, initialProgress(nextId, now))
                /\ createSession(session)
                /\ ret' = [success |-> TRUE, user |-> sanitizeUser(user), session |-> session]
                /\ UNCHANGED <<snapshot, currentUser>>

authenticationError_NamesUnknownEmail(found, password) ==
    IF found = Null
    THEN "No account with this email"
    ELSE IF ~verifyPassword(password, found[1].passwordHash)
    THEN "Invalid email or password"
    ELSE IF ~found[1].isActive
    THEN "Account has been deactivated. Please contact support."
    ELSE ""

authenticationError_IgnoresIsActive(found, password) ==
    IF found = Null
    THEN "Invalid email or password"
    ELSE IF ~verifyPassword(password, found[1].passwordHash)
    THEN "Invalid email or password"
    ELSE ""

(* The message authenticateUser throws for the looked-up account and the   *)
(* password, "" when it throws nothing.                                    *)
authenticationError(found, password) ==
    IF found = Null
    THEN "Invalid email or password"
    ELSE IF ~verifyPassword(password, found[1].passwordHash)
    THEN "Invalid email or password"
    ELSE IF ~found[1].isActive
    THEN "Account has been deactivated. Please contact support."
    ELSE ""

authenticateUser(email, password, rememberMe) ==
    LET found == getUserByEmail(users, trim(toLowerCase(email)))
        error == authenticationError(found, password)
    IN  /\ call' = "authenticateUser"
        /\ UNCHANGED <<now, dbOpen, pending>>
        /\ IF ~dbOpen
           THEN ret' = Failure(NullDbError) /\ UNCHANGED <<db, client>>
           ELSE IF error # ""
           THEN ret' = Failure(error) /\ UNCHANGED <<db, client>>
           ELSE LET user    == found[1]
                    session == NewSession(user.id, rememberMe, now, issued)
                IN  /\ users' = updateLastLogin(users, user.id, now)
                    /\ createSession(session)
                    /\ currentUser' = Some(user)
                    /\ ret' = [success |-> TRUE, user |-> sanitizeUser(user),
                               session |-> session]
                    /\ UNCHANGED <<userProgress, nextId, snapshot>>

(* What logout leaves in the session store when it resolves token sid. *)
SessionsAfterLogout(sid) ==
    IF sid # Null THEN StoreDelete(sessions, sid[1]) ELSE sessions

logout_KeepsSnapshot ==
    /\ call' = "logout"
    /\ UNCHANGED <<users, userProgress, nextId, issued, now, dbOpen, pending>>
    /\ IF StoredSessionId(localSession, tabSession) # Null /\ ~dbOpen
       THEN ret' = Rejected(NullDbError) /\ UNCHANGED <<sessions, client>>
       ELSE /\ sessions' = SessionsAfterLogout(StoredSessionId(localSession, tabSession))
            /\ localSession' = Null
            /\ tabSession' = Null
            /\ currentUser' = Null
            /\ ret' = [success |-> TRUE]
            /\ UNCHANGED snapshot

(* With a stored token and no database, deleteSession rejects and nothing *)
(* catches it: logout stops before it clears any slot.                     *)
logout ==
    /\ call' = "logout"
    /\ UNCHANGED <<users, userProgress, nextId, issued, now, dbOpen, pending>>
    /\ IF StoredSessionId(localSession, tabSession) # Null /\ ~dbOpen
       THEN ret' = Rejected(NullDbError) /\ UNCHANGED <<sessions, client>>
       ELSE /\ sessions' = SessionsAfterLogout(StoredSessionId(localSession, tabSession))
            /\ localSession' = Null
            /\ tabSession' = Null
            /\ snapshot' = Null
            /\ currentUser' = Null
            /\ ret' = [success |-> TRUE]

(* getCurrentUser goes on to load the user when the token sid names a      *)
(* stored session that isSessionExpired does not reject.                   *)
SessionUsable(sid) ==
    /\ sid # Null
    /\ getSession(sessions, sid[1]) # Null
    /\ ~isSessionExpired(getSession(sessions, sid[1])[1], now)

(* The value getCurrentUser returns for token sid. *)
CurrentUserValue(sid) ==
    IF ~SessionUsable(sid) THEN Null
    ELSE LET session == getSession(sessions, sid[1])[1]
             user    == getUserById(users, session.userId)
         IN  IF user # Null THEN Some(sanitizeUser(user[1])) ELSE Null

getCurrentUser ==
    LET sid == StoredSessionId(localSession, tabSession)
    IN  /\ call' = "getCurrentUser"
        /\ UNCHANGED <<users, userProgress, nextId, issued, now, dbOpen, pending>>
        /\ IF sid # Null /\ ~dbOpen
           THEN ret' = Rejected(NullDbError) /\ UNCHANGED <<sessions, client>>
           ELSE IF sid = Null \/ SessionUsable(sid)
           THEN ret' = CurrentUserValue(sid) /\ UNCHANGED <<sessions, client>>
           ELSE /\ ret' = Null
                /\ sessions' = SessionsAfterLogout(sid)
                /\ localSession' = Null
                /\ tabSession' = Null
                /\ snapshot' = Null
                /\ currentUser' = Null

(* constructor + init(): the page is loaded again over the same database   *)
(* and localStorage; sessionStorage survives a reload and is empty in a    *)
(* new tab.  loadCurrentSession caches what getCurrentUser returns.  When  *)
(* indexedDB.open fails (opens is false) init logs the error: this.db and  *)
(* this.currentUser keep the null of the constructor.                      *)
init(newTab, opens) ==
    LET tab  == IF newTab THEN Null ELSE tabSession
        sid  == StoredSessionId(localSession, tab)
        user == CurrentUserValue(sid)
    IN  /\ call' = "init"
        /\ ret' = Null
        /\ dbOpen' = opens
        /\ UNCHANGED pending
        /\ UNCHANGED <<users, userProgress, nextId, issued, now>>
        /\ IF ~opens \/ sid = Null
           THEN /\ currentUser' = Null
                /\ tabSession' = tab
                /\ UNCHANGED <<sessions, localSession, snapshot>>
           ELSE IF SessionUsable(sid)
           THEN /\ currentUser' = user
                /\ snapshot' = IF user # Null THEN user ELSE snapshot
                /\ tabSession' = tab
                /\ UNCHANGED <<sessions, localSession>>
           ELSE /\ sessions' = SessionsAfterLogout(sid)
                /\ localSession' = Null
                /\ tabSession' = Null
                /\ snapshot' = Null
                /\ currentUser' = Null

Max(a, b) == IF a >= b THEN a ELSE b

updateUserProfile(userId, updates) ==
    LET found == getUserById(users, userId)
    IN  /\ call' = "updateUserProfile"
        /\ UNCHANGED <<userProgress, sessions, issued, client, now, dbOpen, pending>>
        /\ IF ~dbOpen
           THEN ret' = Failure(NullDbError) /\ UNCHANGED <<users, nextId>>
           ELSE IF found = Null
           THEN ret' = Failure("User not found") /\ UNCHANGED <<users, nextId>>
           ELSE LET updatedUser == Merge(Merge(found[1], updates), [updatedAt |-> now])
                IN  IF UniqueConflict(users, updatedUser.id, updatedUser)
                    THEN /\ ret' = Failure(ConstraintError)
                         /\ UNCHANGED <<users, nextId>>
                    ELSE /\ users' = StorePut(users, updatedUser.id, updatedUser)
                         /\ nextId' = Max(nextId, updatedUser.id + 1)
                         /\ ret' = [success |-> TRUE, user |-> sanitizeUser(updatedUser)]

(* this.db.transaction throws inside the try when this.db is null. *)
getUserProgress(userId) ==
    /\ call' = "getUserProgress"
    /\ ret' = IF dbOpen THEN StoreGet(userProgress, userId) ELSE Null
    /\ UNCHANGED <<db, client, now, dbOpen, pending>>

ProgressPatches == { [questionsAnswered |-> 4, questionsCorrect |-> 3] }

MergedProgress_Accumulates(existing, progressData, t) ==
    Merge([f \in (DOMAIN existing) \cup (DOMAIN progressData) |->
              IF f \notin DOMAIN progressData THEN existing[f]
              ELSE IF f \in DOMAIN existing THEN existing[f] + progressData[f]
              ELSE progressData[f]],
          [lastUpdated |-> t])

(* { ...existing, ...progressData, lastUpdated: new Date().toISOString() } *)
MergedProgress(existing, progressData, t) ==
    Merge(Merge(existing, progressData), [lastUpdated |-> t])

updateUserProgress(userId, progressData) ==
    LET found    == StoreGet(userProgress, userId)
        existing == IF found # Null THEN found[1] ELSE [userId |-> userId]
        updated  == MergedProgress(existing, progressData, now)
    IN  /\ call' = "updateUserProgress"
        /\ UNCHANGED <<users, sessions, nextId, issued, client, now, dbOpen, pending>>
        /\ IF ~dbOpen
           THEN ret' = Failure(NullDbError) /\ UNCHANGED userProgress
           ELSE /\ userProgress' = StorePut(userProgress, updated.userId, updated)
                /\ ret' = [success |-> TRUE, progress |-> updated]

(* A property the record does not have reads as undefined; an arithmetic   *)
(* result computed from undefined is NaN.                                  *)
Undefined == "undefined"

NaN == "NaN"

(* progress[field] || default, for a field that holds a number when it is  *)
(* there: 0 and undefined give the default.                                *)
OrDefault(progress, field, default) ==
    IF field \in DOMAIN progress /\ progress[field] # 0
    THEN progress[field]
    ELSE default

RoundedPercent_Truncates(correct, answered) == (100 * correct) \div answered

(* Math.round((correct / answered) * 100) for answered > 0: Math.round     *)
(* takes a half upwards.  For the counts the model uses the quotient and   *)
(* the product are exact or within one ulp of a value that is no half, so  *)
(* the double result is the rational one.                                  *)
RoundedPercent(correct, answered) == (200 * correct + answered) \div (2 * answered)

(* The object getUserStats builds from a progress record. *)
StatsOf(progress) ==
    [questionsAnswered |-> OrDefault(progress, "questionsAnswered", 0),
     accuracy          |-> IF "questionsAnswered" \in DOMAIN progress
                              /\ progress.questionsAnswered > 0
                           THEN IF "questionsCorrect" \in DOMAIN progress
                                THEN RoundedPercent(progress.questionsCorrect,
                                                    progress.questionsAnswered)
                                ELSE NaN
                           ELSE 0,
     currentStreak     |-> OrDefault(progress, "currentStreak", 0),
     longestStreak     |-> OrDefault(progress, "longestStreak", 0),
     studyTime         |-> OrDefault(progress, "studyTime", 0),
     studyGoal         |-> OrDefault(progress, "studyGoal", 20),
     lastStudyDate     |-> IF "lastStudyDate" \in DOMAIN progress
                           THEN progress.lastStudyDate ELSE Undefined]

(* getUserProgress returns null for a missing row and for a null this.db. *)
getUserStats(userId) ==
    LET progress == IF dbOpen THEN StoreGet(userProgress, userId) ELSE Null
    IN  /\ call' = "getUserStats"
        /\ ret' = IF progress = Null THEN Null ELSE Some(StatsOf(progress[1]))
        /\ UNCHANGED <<db, client, now, dbOpen, pending>>

(* Time passes between two operations: the clock moves to a later one of   *)
(* the given instants.                                                     *)
Tick(instants) ==
    /\ \E t \in instants : t > now /\ now' = t
    /\ call' = "tick"
    /\ ret' = Null
    /\ UNCHANGED <<db, client, dbOpen, pending>>

(* Accounts: registration, authentication and profile updates with valid,  *)
(* duplicate, unknown and malformed inputs, at one instant.               *)
Next ==
    \/ \E d \in RegisterInputs : registerUser(d)
    \/ \E i \in LoginInputs : authenticateUser(i[1], i[2], i[3])
    \/ getCurrentUser
    \/ logout
    \/ \E id \in UserIds : \E u \in ProfileUpdates : updateUserProfile(id, u)

Spec == Init /\ [][Next]_vars

(* Sessions: the life of session rows and token slots over page loads and  *)
(* the instants around both lifetimes.                                     *)
SessionRegisterInputs ==
    { UserDataOf(EmailA, NameAnn, FALSE), UserDataOf(EmailA, NameAnn, TRUE),
      UserDataOf(EmailB, NameBob, TRUE) }

SessionNext ==
    \/ \E d \in SessionRegisterInputs : registerUser(d)
    \/ \E r \in BOOLEAN : authenticateUser(EmailA, Password1, r)
    \/ getCurrentUser
    \/ logout
    \/ \E newTab \in BOOLEAN : init(newTab, TRUE)
    \/ Tick(Instants)

SessionSpec == Init /\ [][SessionNext]_vars

(* Progress: registration and progress updates, for account ids with and   *)
(* without an account.                                                     *)
ProgressNext ==
    \/ \E d \in RegisterInputs : registerUser(d)
    \/ \E id \in 1..MaxUsers : \E p \in ProgressPatches : updateUserProgress(id, p)
    \/ \E id \in 1..MaxUsers : getUserProgress(id)
    \/ logout
    \/ Tick({ShortTtl + 1})

ProgressSpec == Init /\ [][ProgressNext]_vars

(* registerUser as the event loop runs it: the call is suspended at each   *)
(* await and other calls run in between.  A request to the store takes     *)
(* effect when its step runs; the steps of one call run in program order.  *)
Callers == {"first", "second"}

(* The call has returned result; passedCheck: it got past validation and   *)
(* the existence check of lines 74-77.                                     *)
Returned(d, passedCheck, result) ==
    [pc |-> "returned", userData |-> d, passedCheck |-> passedCheck, result |-> result]

(* Lines 66-74: validation, then the existence check is sent and read. *)
registerUserCheck(caller, d) ==
    LET validation == validateUserData(d)
    IN  /\ caller \notin DOMAIN pending
        /\ UNCHANGED <<db, client, now, dbOpen>>
        /\ IF ~validation.valid
           THEN /\ pending' = StorePut(pending, caller, Returned(d, FALSE, Failure(validation.message)))
                /\ call' = "registerUser"
                /\ ret' = Failure(validation.message)
           ELSE IF ~dbOpen
           THEN /\ pending' = StorePut(pending, caller, Returned(d, FALSE, Failure(NullDbError)))
                /\ call' = "registerUser"
                /\ ret' = Failure(NullDbError)
           ELSE /\ pending' = StorePut(pending, caller,
                                  [pc |-> "checked", userData |-> d,
                                   existingUser |-> getUserByEmail(users, d.email)])
                /\ call' = "await"
                /\ ret' = Null

(* Lines 75-104: the call resumes with the existing user it read, builds   *)
(* the user object and adds it to the users store.                         *)
registerUserStore(caller) ==
    /\ caller \in DOMAIN pending
    /\ pending[caller].pc = "checked"
    /\ LET d      == pending[caller].userData
           user   == NewUser(d, now)
           stored == Merge(user, [id |-> nextId])
           error  == IF pending[caller].existingUser # Null
                     THEN "An account with this email already exists"
                     ELSE IF UniqueConflict(users, nextId, stored)
                     THEN ConstraintError
                     ELSE ""
       IN  /\ UNCHANGED <<userProgress, sessions, issued, client, now, dbOpen>>
           /\ IF error # ""
              THEN /\ pending' = StorePut(pending, caller, Returned(d, pending[caller].existingUser = Null, Failure(error)))
                   /\ call' = "registerUser"
                   /\ ret' = Failure(error)
                   /\ UNCHANGED <<users, nextId>>
              ELSE /\ nextId <= MaxUsers
                   /\ users' = StorePut(users, nextId, stored)
                   /\ nextId' = nextId + 1
                   /\ pending' = StorePut(pending, caller,
                                     [pc |-> "stored", userData |-> d,
                                      user |-> user, userId |-> nextId])
                   /\ call' = "await"
                   /\ ret' = Null

(* Lines 106-107: initializeUserProgress(userId). *)
registerUserProgress(caller) ==
    /\ caller \in DOMAIN pending
    /\ pending[caller].pc = "stored"
    /\ LET userId == pending[caller].userId
       IN  userProgress' = StorePut(userProgress, userId, initialProgress(userId, now))
    /\ pending' = [pending EXCEPT ![caller].pc = "initialized"]
    /\ call' = "await"
    /\ ret' = Null
    /\ UNCHANGED <<users, sessions, nextId, issued, client, now, dbOpen>>

(* Lines 109-117: createSession(userId, rememberMe) and the return. *)
registerUserSession(caller) ==
    /\ caller \in DOMAIN pending
    /\ pending[caller].pc = "initialized"
    /\ LET d       == pending[caller].userData
           session == NewSession(pending[caller].userId, d.rememberMe, now, issued)
           result  == [success |-> TRUE, user |-> sanitizeUser(pending[caller].user),
                       session |-> session]
       IN  /\ createSession(session)
           /\ pending' = StorePut(pending, caller, Returned(d, TRUE, result))
           /\ call' = "registerUser"
           /\ ret' = result
    /\ UNCHANGED <<users, userProgress, nextId, snapshot, currentUser, now, dbOpen>>

RaceInputs ==
    { UserDataOf(EmailA, NameAnn, FALSE), UserDataOf(EmailA, NameAmy, TRUE),
      UserDataOf(EmailAUpper, NameAmy, FALSE), UserDataOf(EmailB, NameBob, TRUE) }

RaceNext ==
    \/ \E caller \in Callers : \E d \in RaceInputs : registerUserCheck(caller, d)
    \/ \E caller \in Callers : registerUserStore(caller)
    \/ \E caller \in Callers : registerUserProgress(caller)
    \/ \E caller \in Callers : registerUserSession(caller)

RaceSpec == Init /\ [][RaceNext]_vars

(* Validation: registrations that pass validation, some with names padded *)
(* with white space, and registrations that break one rule, several rules  *)
(* or every rule from some rule on.                                        *)
PaddedInputs ==
    { [email |-> e, username |-> u, firstName |-> f, lastName |-> <<"L","i">>,
       password |-> Password1, rememberMe |-> FALSE] :
          e \in {EmailA, EmailB},
          u \in {NameAnn, <<" "," ","a">>},
          f \in {<<"A","l">>, <<" ","A">>} }

(* An input that breaks the rules numbered in S, in the order in which     *)
(* validateUserData checks them, and no other.                             *)
InputBreaking(S) ==
    [email      |-> IF 1 \in S THEN EmailBad ELSE EmailA,
     username   |-> IF 2 \in S THEN <<"a","b">> ELSE NameAnn,
     firstName  |-> IF 3 \in S THEN <<"A">> ELSE <<"A","l">>,
     lastName   |-> IF 4 \in S THEN <<"L">> ELSE <<"L","i">>,
     password   |-> IF 5 \in S /\ 6 \in S THEN <<"p","w">>
                    ELSE IF 5 \in S THEN <<"P","w","0">>
                    ELSE IF 6 \in S THEN <<"p","a","s","s","w","o","r","d">>
                    ELSE Password1,
     rememberMe |-> FALSE]

BrokenRuleSets ==
    {i..6 : i \in 1..6} \cup {{i} : i \in 1..6} \cup {{1, 6}, {2, 5}, {3, 4}}

ValidationInputs == PaddedInputs \cup {InputBreaking(S) : S \in BrokenRuleSets}

ValidationNext ==
    \/ \E d \in ValidationInputs : registerUser(d)
    \/ logout

ValidationSpec == Init /\ [][ValidationNext]_vars

(* Statistics: the progress row of one account under patches that set the *)
(* two question counts to every pair of values, a patch with a half-way    *)
(* percentage (1 of 8), a patch of another field and a patch of one count. *)
CountPatches ==
    { [questionsAnswered |-> a, questionsCorrect |-> c] :
          a \in 0..MaxCount, c \in 0..MaxCount }

StatsPatches ==
    CountPatches \cup { [questionsAnswered |-> 8, questionsCorrect |-> 1],
                        [studyTime |-> 5],
                        [questionsAnswered |-> 2] }

StatsNext ==
    \/ registerUser(UserDataOf(EmailA, NameAnn, FALSE))
    \/ \E p \in StatsPatches : updateUserProgress(1, p)
    \/ \E id \in 1..2 : getUserStats(id)

StatsSpec == Init /\ [][StatsNext]_vars

(* Profiles: updates that set plain fields and an update that carries the *)
(* key path 'id' with an email and a username no account has.             *)
EmailC == <<"c","@","x",".","c","o">>

NameCat == <<"c","a","t">>

KeyedUpdates ==
    ProfileUpdates \cup { [id |-> 2, email |-> EmailC, username |-> NameCat] }

ProfileNext ==
    \/ \E d \in SessionRegisterInputs : registerUser(d)
    \/ \E id \in UserIds : \E u \in KeyedUpdates : updateUserProfile(id, u)
    \/ logout

ProfileSpec == Init /\ [][ProfileNext]_vars

(* Store failure: page loads on which indexedDB.open fails, and every      *)
(* public operation called with and without the database.                  *)
FailNext ==
    \/ registerUser(UserDataOf(EmailA, NameAnn, TRUE))
    \/ authenticateUser(EmailA, Password1, FALSE)
    \/ getCurrentUser
    \/ logout
    \/ \E u \in ProfileUpdates : updateUserProfile(1, u)
    \/ getUserProgress(1)
    \/ \E p \in ProgressPatches : updateUserProgress(1, p)
    \/ getUserStats(1)
    \/ \E newTab \in BOOLEAN : \E opens \in BOOLEAN : init(newTab, opens)

FailSpec == Init /\ [][FailNext]_vars

(* ------------------------------- claims -------------------------------- *)

NormalizedEmail(email) == trim(toLowerCase(email))

(* C1: once an account exists for an email, a later registerUser with      *)
(* valid data whose email is that email after lowercasing and trimming     *)
(* fails with 'An account with this email already exists', and the store  *)
(* still holds exactly one account with that normalized email.             *)
C1_DuplicateMessage ==
    [][\A d \in RegisterInputs :
          ( /\ registerUser(d)
            /\ validateUserData(d).valid
            /\ \E k \in DOMAIN users : users[k].email = NormalizedEmail(d.email) )
          => /\ ret' = Failure("An account with this email already exists")
             /\ Cardinality({k \in DOMAIN users' :
                    NormalizedEmail(users'[k].email) = NormalizedEmail(d.email)}) = 1]_vars

(* C2: every stored session expires one lifetime after its creation (12    *)
(* hours, or 30 days with rememberMe), and isSessionExpired rejects it     *)
(* exactly when the current time has reached expiresAt.                    *)
C2_ExpiredFromExpiresAt ==
    \A k \in DOMAIN sessions :
        LET s == sessions[k]
        IN  /\ s.expiresAt = s.createdAt + (IF s.rememberMe THEN LongTtl ELSE ShortTtl)
            /\ isSessionExpired(s, now) <=> (now >= s.expiresAt)

(* C3: no two accounts have the same lowercased, trimmed email, and no two *)
(* have the same username.                                                 *)
C3_UniqueNormalizedEmail ==
    \A i \in DOMAIN users : \A j \in DOMAIN users :
        i # j => /\ NormalizedEmail(users[i].email) # NormalizedEmail(users[j].email)
                 /\ users[i].username # users[j].username

(* A token slot holds the token of a session that is past its expiry or    *)
(* has no row.                                                             *)
HoldsDeadToken(slot) ==
    /\ slot # Null
    /\ \/ getSession(sessions, slot[1]) = Null
       \/ now > getSession(sessions, slot[1])[1].expiresAt

(* C4: getCurrentUser called while a token slot holds the token of an      *)
(* expired or missing session returns null, empties both token slots and   *)
(* leaves no session row for that token.                                   *)
C4_DeadTokenPurged ==
    [][( /\ getCurrentUser
         /\ HoldsDeadToken(localSession) \/ HoldsDeadToken(tabSession) )
       => /\ ret' = Null
          /\ localSession' = Null
          /\ tabSession' = Null
          /\ \A slot \in {localSession, tabSession} :
                HoldsDeadToken(slot) => slot[1] \notin DOMAIN sessions']_vars

(* C5: no user object returned by registerUser, authenticateUser,          *)
(* updateUserProfile or getCurrentUser has a passwordHash field.           *)
C5_NoHashInReturnedUser ==
    /\ call \in {"registerUser", "authenticateUser", "updateUserProfile"}
         => (ret.success => "passwordHash" \notin DOMAIN ret.user)
    /\ call = "getCurrentUser"
         => (ret # Null => "passwordHash" \notin DOMAIN ret[1])

(* updateUserProfile has returned the account it wrote with the            *)
(* passwordHash its updates carried.                                       *)
C5_Witness ==
    /\ call = "updateUserProfile"
    /\ ret.success
    /\ users[ret.user.id].passwordHash = hashPassword(Password2)

(* C6: authenticateUser for an email no account has and authenticateUser   *)
(* with a wrong password for an existing account both return               *)
(* {success: false, message: 'Invalid email or password'} and change no    *)
(* store, token slot, snapshot or current user.                            *)
C6_SameCredentialFailure ==
    [][\A i \in LoginInputs :
          LET found == getUserByEmail(users, NormalizedEmail(i[1]))
          IN  ( /\ authenticateUser(i[1], i[2], i[3])
                /\ \/ found = Null
                   \/ ~verifyPassword(i[2], found[1].passwordHash) )
              => /\ ret' = Failure("Invalid email or password")
                 /\ UNCHANGED <<db, client>>]_vars

(* Every login email has an account, so this failure is a wrong password. *)
C6_Witness ==
    /\ call = "authenticateUser"
    /\ ret = Failure("Invalid email or password")
    /\ \A i \in LoginInputs : getUserByEmail(users, NormalizedEmail(i[1])) # Null

(* C7: authenticateUser for an account whose isActive is false never       *)
(* succeeds, returns the deactivation message when the password is right,  *)
(* and writes no session row, lastLoginAt, token slot or current user.     *)
C7_DeactivatedRejected ==
    [][\A i \in LoginInputs :
          LET found == getUserByEmail(users, NormalizedEmail(i[1]))
          IN  ( /\ authenticateUser(i[1], i[2], i[3])
                /\ found # Null
                /\ found[1].isActive = FALSE )
              => /\ ret'.success = FALSE
                 /\ verifyPassword(i[2], found[1].passwordHash)
                      => ret' = Failure("Account has been deactivated. Please contact support.")
                 /\ UNCHANGED <<users, sessions, issued, localSession, tabSession, currentUser>>]_vars

C7_Witness ==
    /\ call = "authenticateUser"
    /\ ret = Failure("Account has been deactivated. Please contact support.")
    /\ \E k \in DOMAIN users : users[k].isActive = FALSE

(* What every logout leaves: success, empty token slots, snapshot and      *)
(* current user, no row for the token it resolved, and a getCurrentUser    *)
(* that would return null.                                                 *)
LogoutPostcondition ==
    LET sid == StoredSessionId(localSession, tabSession)
    IN  /\ ret' = [success |-> TRUE]
        /\ localSession' = Null
        /\ tabSession' = Null
        /\ snapshot' = Null
        /\ currentUser' = Null
        /\ sid # Null => sid[1] \notin DOMAIN sessions'
        /\ (CurrentUserValue(StoredSessionId(localSession, tabSession)))' = Null

(* C8 as stated: logout establishes its postcondition, and a logout that   *)
(* follows a logout, or that finds no stored token, leaves the whole state *)
(* unchanged.                                                              *)
C8_LogoutNoSessionUnchanged ==
    [][logout =>
          /\ LogoutPostcondition
          /\ call = "logout" => UNCHANGED <<db, client>>
          /\ StoredSessionId(localSession, tabSession) = Null
               => UNCHANGED <<db, client>>]_vars

(* C8, amended: logout establishes its postcondition; a logout that        *)
(* follows a logout leaves the whole state unchanged; a logout that finds  *)
(* no stored token changes no store row (it still clears a snapshot left   *)
(* by an earlier page load).                                               *)
C8_LogoutIdempotent ==
    [][logout =>
          /\ LogoutPostcondition
          /\ call = "logout" => UNCHANGED <<db, client>>
          /\ StoredSessionId(localSession, tabSession) = Null => UNCHANGED db]_vars

(* logout has deleted a session row: at time 0 no session has expired, so  *)
(* no getCurrentUser has purged one.                                       *)
C8_Witness ==
    /\ call = "logout"
    /\ now = 0
    /\ Cardinality(DOMAIN sessions) < issued

C10_LoginKeepsOldSessions ==
    [][(call' = "authenticateUser" /\ ret'.success) =>
          LET id == ret'.user.id
          IN  /\ users'[id].lastLoginAt = Some(now)
              /\ users' = [users EXCEPT ![id].lastLoginAt = Some(now)]
              /\ \E tok \in (DOMAIN sessions') \ (DOMAIN sessions) :
                    /\ DOMAIN sessions' = (DOMAIN sessions) \cup {tok}
                    /\ sessions'[tok].userId = id
                    /\ \A k \in DOMAIN sessions : sessions'[k] = sessions[k]]_vars

(* After a login the account owns two session rows, neither expired. *)
C10_Witness ==
    /\ call = "authenticateUser"
    /\ ret.success
    /\ \E i \in DOMAIN sessions : \E j \in DOMAIN sessions :
          /\ i # j
          /\ sessions[i].userId = ret.user.id
          /\ sessions[j].userId = ret.user.id
          /\ ~isSessionExpired(sessions[i], now)
          /\ ~isSessionExpired(sessions[j], now)

(* C13: after every operation the ids that have a progress row are the ids *)
(* of the account store, and no operation removes a progress row.          *)
C13_ProgressOnePerAccount ==
    [][ /\ DOMAIN userProgress' = DOMAIN users'
        /\ DOMAIN userProgress \subseteq DOMAIN userProgress' ]_vars

(* C15: a session row appears only in registerUser or authenticateUser,    *)
(* under a token generated by that call; a row that stays keeps its        *)
(* expiresAt, and the clock never goes back, so an expired session stays   *)
(* expired; a token that was generated and has no row gets none again.     *)
C15_SessionOneWay ==
    [][ /\ \A k \in (DOMAIN sessions') \ (DOMAIN sessions) :
              /\ call' \in {"registerUser", "authenticateUser"}
              /\ k = generateSessionId(now, issued)
              /\ issued' = issued + 1
        /\ \A k \in (DOMAIN sessions') \cap (DOMAIN sessions) :
              /\ sessions'[k].expiresAt = sessions[k].expiresAt
              /\ isSessionExpired(sessions[k], now) => isSessionExpired(sessions'[k], now')
        /\ \A k \in DOMAIN sessions : k[3] < issued
        /\ \A t \in Instants : \A n \in 0..(issued - 1) :
              generateSessionId(t, n) \notin DOMAIN sessions
                 => generateSessionId(t, n) \notin DOMAIN sessions' ]_vars

(* A session was created after an earlier one had been deleted, and the    *)
(* row that remains has expired.                                           *)
C15_Witness ==
    /\ issued = 2
    /\ Cardinality(DOMAIN sessions) = 1
    /\ \E k \in DOMAIN sessions : k[3] = 1 /\ isSessionExpired(sessions[k], now)

(* C18: getCurrentUser called right after an authenticateUser that         *)
(* succeeded, before the new session expires, returns the account that     *)
(* logged in, and the token it resolves is the token of the new session.   *)
C18_CurrentFollowsLogin ==
    [][( /\ getCurrentUser
         /\ call = "authenticateUser"
         /\ ret.success
         /\ ~isSessionExpired(ret.session, now) )
       => /\ StoredSessionId(localSession, tabSession) = Some(ret.session.sessionId)
          /\ ret' # Null
          /\ ret'[1].id = ret.user.id ]_vars

(* C20: neither the object currentUser refers to nor the cached snapshot   *)
(* has a passwordHash field.                                               *)
C20_NoHashInClientState ==
    /\ currentUser # Null => "passwordHash" \notin DOMAIN currentUser[1]
    /\ snapshot # Null => "passwordHash" \notin DOMAIN snapshot[1]

PublicOperations ==
    {"registerUser", "authenticateUser", "logout", "updateUserProfile",
     "getUserProgress", "updateUserProgress", "getCurrentUser", "getUserStats"}

(* C11: a public operation called while this.db is null (the database      *)
(* failed to open) returns to its caller: its promise is never rejected,   *)
(* and registerUser, authenticateUser, updateUserProfile and               *)
(* updateUserProgress return {success: false, message}.                    *)
C11_FailuresContained ==
    (~dbOpen /\ call \in PublicOperations)
       => /\ ret # Rejected(NullDbError)
          /\ call \in {"registerUser", "authenticateUser",
                       "updateUserProfile", "updateUserProgress"}
                => (ret.success = FALSE /\ "message" \in DOMAIN ret)

(* The record updateUserProgress merges a patch onto. *)
ProgressBefore(userId) ==
    IF userId \in DOMAIN userProgress THEN userProgress[userId] ELSE [userId |-> userId]

WithoutLastUpdated(progress) ==
    [f \in (DOMAIN progress) \ {"lastUpdated"} |-> progress[f]]

(* C14: updateUserProgress(1, p1) stores a record that has p1's value in   *)
(* every field of p1 and the previous value in every other field but       *)
(* lastUpdated.  For every second patch p2 applied to it: a field of both  *)
(* patches ends with the value of the patch applied last (no sum); fields  *)
(* of neither patch keep their values; and when the patches share no       *)
(* field, p1 then p2 and p2 then p1 give the same record up to lastUpdated,*)
(* with the values of both.                                                *)
C14_MergeSemantics ==
    [][\A p1 \in StatsPatches : updateUserProgress(1, p1) =>
          LET r  == ProgressBefore(1)
              r1 == userProgress'[1]
          IN  /\ DOMAIN r1 = (DOMAIN r) \cup (DOMAIN p1) \cup {"lastUpdated"}
              /\ \A f \in DOMAIN p1 : r1[f] = p1[f]
              /\ \A f \in (DOMAIN r) \ ((DOMAIN p1) \cup {"lastUpdated"}) : r1[f] = r[f]
              /\ \A p2 \in StatsPatches :
                    LET r12 == MergedProgress(r1, p2, now)
                        r21 == MergedProgress(MergedProgress(r, p2, now), p1, now)
                    IN  /\ \A f \in (DOMAIN p1) \cap (DOMAIN p2) :
                              r12[f] = p2[f] /\ r21[f] = p1[f]
                        /\ \A f \in (DOMAIN r) \ ((DOMAIN p1) \cup (DOMAIN p2) \cup {"lastUpdated"}) :
                              r12[f] = r[f] /\ r21[f] = r[f]
                        /\ (DOMAIN p1) \cap (DOMAIN p2) = {}
                              => /\ WithoutLastUpdated(r12) = WithoutLastUpdated(r21)
                                 /\ \A f \in DOMAIN p1 : r12[f] = p1[f]
                                 /\ \A f \in DOMAIN p2 : r12[f] = p2[f] ]_vars

(* The row of a registered account after a patch of both counts, a patch   *)
(* of one of them and a patch of another field.                            *)
C14_Witness ==
    /\ call = "updateUserProgress"
    /\ 1 \in DOMAIN users
    /\ userProgress[1].questionsAnswered = 2
    /\ userProgress[1].questionsCorrect = 3
    /\ userProgress[1].studyTime = 5

(* C16: for a progress record with questionsAnswered = a and               *)
(* questionsCorrect = c, getUserStats returns as accuracy 0 when a = 0 and *)
(* an integer nearest to c*100/a when a > 0; for an id without a progress  *)
(* record it returns null.                                                 *)
C16_StatsAccuracy ==
    [][\A id \in 1..2 : getUserStats(id) =>
          IF id \notin DOMAIN userProgress
          THEN ret' = Null
          ELSE LET progress == userProgress[id]
               IN  {"questionsAnswered", "questionsCorrect"} \subseteq DOMAIN progress
                      => LET a == progress.questionsAnswered
                             c == progress.questionsCorrect
                             r == ret'[1].accuracy
                         IN  /\ ret' # Null
                             /\ a = 0 => r = 0
                             /\ a > 0 => /\ 2 * (c * 100 - r * a) <= a
                                         /\ 2 * (r * a - c * 100) <= a ]_vars

(* getUserStats has returned 13 for 1 correct answer of 8 (12.5 percent). *)
C16_Witness ==
    /\ call = "getUserStats"
    /\ ret # Null
    /\ ret[1].questionsAnswered = 8
    /\ ret[1].accuracy = 13

(* C12: every stored account has a trimmed username of at least 3          *)
(* characters and trimmed first and last names of at least 2 each.         *)
C12_StoredNameLengths ==
    \A k \in DOMAIN users :
        /\ users[k].username = trim(users[k].username)
        /\ users[k].firstName = trim(users[k].firstName)
        /\ users[k].lastName = trim(users[k].lastName)
        /\ Len(users[k].username) >= 3
        /\ Len(users[k].firstName) >= 2
        /\ Len(users[k].lastName) >= 2

(* The rules of the claim in their order, each as <<violated, message>>.   *)
RulesInOrder(d) ==
    << <<~isValidEmail(d.email), "Please enter a valid email address">>,
       <<Len(d.username) < 3, "Username must be at least 3 characters long">>,
       <<Len(d.firstName) < 2, "First name must be at least 2 characters long">>,
       <<Len(d.lastName) < 2, "Last name must be at least 2 characters long">>,
       <<Len(d.password) < 8, "Password must be at least 8 characters long">>,
       <<~( /\ \E i \in DOMAIN d.password : IsLower(d.password[i])
            /\ \E i \in DOMAIN d.password : IsUpper(d.password[i])
            /\ \E i \in DOMAIN d.password : d.password[i] \in DigitChars ),
         "Password must contain at least one uppercase letter, one lowercase letter, and one number">> >>

ViolatedRules(d) == {i \in DOMAIN RulesInOrder(d) : RulesInOrder(d)[i][1]}

(* C17: registerUser on an input that violates rules returns success:false *)
(* with the message of the first violated rule and changes nothing; on an  *)
(* input that violates none it returns no rule's message.                  *)
C17_FirstViolatedRule ==
    [][\A d \in ValidationInputs : registerUser(d) =>
          LET violated == ViolatedRules(d)
          IN  IF violated # {}
              THEN /\ ret' = Failure(RulesInOrder(d)[CHOOSE i \in violated :
                                        \A j \in violated : i <= j][2])
                   /\ UNCHANGED <<db, client>>
              ELSE \/ ret'.success
                   \/ \A i \in DOMAIN RulesInOrder(d) :
                         ret'.message # RulesInOrder(d)[i][2] ]_vars

(* A registration was rejected for its first name beside a stored account: *)
(* in the inputs a short first name comes with short last names and weak   *)
(* passwords.                                                              *)
C17_Witness ==
    /\ call = "registerUser"
    /\ ret = Failure("First name must be at least 2 characters long")
    /\ users # <<>>

(* Both callers' registerUser calls were for the normalized email, passed  *)
(* validation and the existence check, and have returned.                  *)
BothPassedCheck(email) ==
    /\ DOMAIN pending = Callers
    /\ \A c \in Callers :
          /\ pending[c].pc = "returned"
          /\ pending[c].passedCheck
          /\ NormalizedEmail(pending[c].userData.email) = email

(* C19: when two registerUser calls for one normalized email have both     *)
(* passed the existence check and have both returned, at most one returned *)
(* success and the stores hold one account, one progress row and one       *)
(* session row for that email.                                             *)
C19_RaceLeavesOneAccount ==
    \A email \in {NormalizedEmail(d.email) : d \in RaceInputs} :
        BothPassedCheck(email) =>
            LET ids == {k \in DOMAIN users : NormalizedEmail(users[k].email) = email}
            IN  /\ Cardinality({c \in Callers : pending[c].result.success}) <= 1
                /\ Cardinality(ids) = 1
                /\ Cardinality((DOMAIN userProgress) \cap ids) = 1
                /\ Cardinality({t \in DOMAIN sessions : sessions[t].userId \in ids}) = 1

(* Both calls have returned, one with success and one with the store's     *)
(* constraint error: the second passed its existence check before the      *)
(* first wrote.                                                            *)
C19_Witness ==
    /\ BothPassedCheck(EmailA)
    /\ \A c \in Callers : pending[c].userData.email = EmailA
    /\ \E c \in Callers : pending[c].result = Failure(ConstraintError)
    /\ \E c \in Callers : pending[c].result.success

(* C21: updateUserProfile(id, updates) for an id without an account        *)
(* returns the 'User not found' failure and changes nothing; for an id     *)
(* with an account it adds no account row and leaves every other account   *)
(* row, every session row and every progress row as it was.                *)
C21_ProfileUpdateFrame ==
    [][\A id \in UserIds : \A u \in KeyedUpdates : updateUserProfile(id, u) =>
          IF id \notin DOMAIN users
          THEN ret' = Failure("User not found") /\ UNCHANGED <<db, client>>
          ELSE /\ DOMAIN users' = DOMAIN users
               /\ \A k \in (DOMAIN users) \ {id} : users'[k] = users[k]
               /\ UNCHANGED <<sessions, userProgress>> ]_vars

====
